---------------------------- MODULE Spec2Model ----------------------------
(***************************************************************************)
(* Model of quadax's Romberg integrator (src/quadax/romberg.py) and of the *)
(* helpers it uses from src/quadax/utils.py: map_interval, wrap_func and   *)
(* the STATUS message table.                                               *)
(*                                                                         *)
(* Numbers.  A floating point value is modelled as a pair <<n, d>>:        *)
(*   d > 0        the rational n/d in lowest terms,                         *)
(*   <<1, 0>>     +inf,   <<-1, 0>>   -inf,   <<0, 0>>   nan.               *)
(* Arithmetic on the extrapolation table is exact.  One evaluation of the  *)
(* integrand is rounded to PrecBits binary digits after the point (sign    *)
(* symmetric, as IEEE rounding is), and so is the square root.             *)
(***************************************************************************)
EXTENDS Integers, Sequences, FiniteSets, TLC

(***************************************************************************)
(* Bounds of the model.                                                    *)
(***************************************************************************)
\* largest divmax a caller passes
MaxDivmax == 2
\* binary digits after the point kept by one integrand evaluation
PrecBits == 4

(***************************************************************************)
(* Extended rational arithmetic (the numeric substrate).                   *)
(***************************************************************************)
\* Call by value: the operands are evaluated once and the operator is
\* applied to their values.
ByValue1(Op(_), x) == CHOOSE r \in {Op(v) : v \in {x}} : TRUE

ByValue2(Op(_, _), x, y) ==
    CHOOSE r \in {Op(v[1], v[2]) : v \in {<<x, y>>}} : TRUE

Abs(i) == IF i < 0 THEN -i ELSE i

Sign(i) == IF i < 0 THEN -1 ELSE IF i > 0 THEN 1 ELSE 0

RECURSIVE Gcd(_, _)
Gcd(i, j) == IF j = 0 THEN i ELSE Gcd(j, i % j)

RECURSIVE Pow(_, _)
Pow(base, e) == IF e <= 0 THEN 1 ELSE base * Pow(base, e - 1)

\* the value n/d, d of either sign, in canonical form
NormV(n, d) ==
    IF d = 0 THEN <<Sign(n), 0>>
    ELSE LET g == Gcd(Abs(n), Abs(d))
         IN  <<Sign(d) * (n \div g), Abs(d) \div g>>

Norm(n, d) == ByValue2(NormV, n, d)

\* one integrand evaluation is a multiple of 1 / Prec
Prec == Pow(2, PrecBits)

Int2Num(i) == <<i, 1>>
Zero == Int2Num(0)
One == Int2Num(1)
PosInf == <<1, 0>>
NegInf == <<-1, 0>>
NaN == <<0, 0>>

IsFinite(x) == x[2] # 0
IsInf(x) == x[2] = 0 /\ x[1] # 0
IsNaN(x) == x = NaN

NegV(x) == <<-x[1], x[2]>>

Neg(x) == ByValue1(NegV, x)

NAbsV(x) == <<Abs(x[1]), x[2]>>

NAbs(x) == ByValue1(NAbsV, x)

AddV(x, y) ==
    IF IsNaN(x) \/ IsNaN(y) THEN NaN
    ELSE IF ~IsFinite(x) /\ ~IsFinite(y) THEN (IF x = y THEN x ELSE NaN)
    ELSE IF ~IsFinite(x) THEN x
    ELSE IF ~IsFinite(y) THEN y
    ELSE LET g == Gcd(x[2], y[2])
         IN  Norm(x[1] * (y[2] \div g) + y[1] * (x[2] \div g),
                  (x[2] \div g) * y[2])

Add(x, y) == ByValue2(AddV, x, y)

Sub(x, y) == Add(x, Neg(y))

MulV(x, y) ==
    IF IsNaN(x) \/ IsNaN(y) THEN NaN
    ELSE LET g1 == IF x[1] = 0 /\ y[2] = 0 THEN 1 ELSE Gcd(Abs(x[1]), y[2])
             g2 == IF y[1] = 0 /\ x[2] = 0 THEN 1 ELSE Gcd(Abs(y[1]), x[2])
             h1 == IF g1 = 0 THEN 1 ELSE g1
             h2 == IF g2 = 0 THEN 1 ELSE g2
         IN  Norm((x[1] \div h1) * (y[1] \div h2),
                  (x[2] \div h2) * (y[2] \div h1))

Mul(x, y) == ByValue2(MulV, x, y)

\* 1/x; a zero is +0, so 1/0 = +inf
RecipV(x) ==
    IF IsNaN(x) THEN NaN
    ELSE IF IsInf(x) THEN Zero
    ELSE IF x[1] = 0 THEN PosInf
    ELSE <<Sign(x[1]) * x[2], Abs(x[1])>>

Recip(x) == ByValue1(RecipV, x)

Div(x, y) == Mul(x, Recip(y))

\* x > y as IEEE compares: FALSE whenever a nan is involved
GtV(x, y) ==
    IF IsNaN(x) \/ IsNaN(y) THEN FALSE
    ELSE IF ~IsFinite(x) \/ ~IsFinite(y)
         THEN (IF IsFinite(x) THEN y = NegInf
               ELSE IF IsFinite(y) THEN x = PosInf
               ELSE x = PosInf /\ y = NegInf)
    ELSE LET g == Gcd(x[2], y[2])
         IN  x[1] * (y[2] \div g) > y[1] * (x[2] \div g)

Gt(x, y) == ByValue2(GtV, x, y)

\* jnp.maximum / jnp.minimum: a nan operand gives nan
MaximumV(x, y) ==
    IF IsNaN(x) \/ IsNaN(y) THEN NaN ELSE IF Gt(y, x) THEN y ELSE x

Maximum(x, y) == ByValue2(MaximumV, x, y)

MinimumV(x, y) ==
    IF IsNaN(x) \/ IsNaN(y) THEN NaN ELSE IF Gt(x, y) THEN y ELSE x

Minimum(x, y) == ByValue2(MinimumV, x, y)

\* round a finite value to the nearest multiple of 1/Prec, ties away from 0
RoundV(x) ==
    IF ~IsFinite(x) THEN x
    ELSE Norm(Sign(x[1]) * ((2 * Abs(x[1]) * Prec + x[2]) \div (2 * x[2])), Prec)

Round(x) == ByValue1(RoundV, x)

\* floor of the integer square root
ISqrt(v) == CHOOSE k \in 0..v : k * k <= v /\ (k + 1) * (k + 1) > v

\* x ** 0.5, rounded down to the grid
SqrtV(x) ==
    IF IsNaN(x) \/ x = NegInf THEN NaN
    ELSE IF x = PosInf THEN PosInf
    ELSE IF x[1] < 0 THEN NaN
    ELSE Norm(ISqrt((x[1] * Prec * Prec) \div x[2]), Prec)

Sqrt(x) == ByValue1(SqrtV, x)

(***************************************************************************)
(* utils.py: interval maps.  Each returns <<mapped abscissa, weight>>.     *)
(***************************************************************************)
_x_map_linear(x, a, b) ==
    LET c == Div(Sub(b, a), Int2Num(2))
        d == Div(Add(b, a), Int2Num(2))
    IN  <<Add(d, Mul(c, x)), c>>

_x_map_ninfinf(x, a, b) ==
    LET x2 == Mul(x, x)
        px1 == Sub(One, x2)
        spx1 == Recip(Sqrt(px1))
    IN  <<Mul(x, spx1), Div(spx1, px1)>>

_x_map_ainf(x, a, b) ==
    LET u == Div(Int2Num(2), Add(x, One))
    IN  <<Add(Sub(a, One), u), Mul(<<1, 2>>, Mul(u, u))>>

_x_map_ninfb(x, a, b) ==
    LET u == Div(Int2Num(2), Add(x, One))
    IN  <<Sub(Add(b, One), u), Mul(<<1, 2>>, Mul(u, u))>>

(***************************************************************************)
(* The integrands a caller passes: fun(x, *args) with one parameter p.     *)
(***************************************************************************)
Funs == {"one", "lin", "sq"}

\* fun(x, p)
fun(f, x, p) ==
    CASE f = "one" -> One
      [] f = "lin" -> Mul(p, x)
      [] f = "sq" -> Mul(x, x)

\* jax.jvp(fun, (x, p), (0, pdot))[1]: the directional derivative of fun
\* along pdot with x held fixed (tangent of x is an explicit zero)
df(f, x, p, pdot) ==
    CASE f = "one" -> Zero
      [] f = "lin" -> Add(Mul(pdot, x), Mul(p, Zero))
      [] f = "sq" -> Add(Mul(Zero, x), Mul(x, Zero))

\* the callable romberg integrates: fun itself, or df inside the jvp rule
integrand(g, x) ==
    IF g.deriv THEN df(g.f, x, g.p, g.pdot) ELSE fun(g.f, x, g.p)

(***************************************************************************)
(* utils.py: map_interval.  The closure fun_mapped captures sgn, the       *)
(* normalized bounds and the bitmask.                                      *)
(***************************************************************************)
BoolInt(c) == IF c THEN 1 ELSE 0

\* mutant: the reversal of the bounds is not recorded
sgn_positive(a, b) == 1

sgn(a, b) == Pow(-1, BoolInt(Gt(a, b)))

bitmask(a, b) ==
    BoolInt(IsInf(Minimum(a, b))) + 2 * BoolInt(IsInf(Maximum(a, b)))

map_interval(a, b) ==
    [sgn |-> sgn(a, b), a |-> Minimum(a, b), b |-> Maximum(a, b),
     bitmask |-> bitmask(a, b)]

\* jax.lax.switch(bitmask, [linear, ninfb, ainf, ninfinf], x, a, b)
x_map(m, x) ==
    CASE m.bitmask = 0 -> _x_map_linear(x, m.a, m.b)
      [] m.bitmask = 1 -> _x_map_ninfb(x, m.a, m.b)
      [] m.bitmask = 2 -> _x_map_ainf(x, m.a, m.b)
      [] m.bitmask = 3 -> _x_map_ninfinf(x, m.a, m.b)

\* sgn * w * fun(x, *args) with (x, w) the mapped abscissa and weight
weighted(m, g, xw) == Mul(Mul(Int2Num(m.sgn), xw[2]), integrand(g, xw[1]))

fun_mapped(m, g, x) == ByValue1(LAMBDA xw : weighted(m, g, xw), x_map(m, x))

\* jnp.where(jnp.isfinite(f), f, 0.0)
mask(v) == IF IsFinite(v) THEN v ELSE Zero

\* wrap_func: one finite-precision evaluation, inf/nan masked to 0
wrapped(m, g, x) == ByValue1(mask, Round(fun_mapped(m, g, x)))

(***************************************************************************)
(* utils.py: the status messages.  A text is a sequence of pieces, so      *)
(* that `msg += m + "\n\n"` appends two pieces.                            *)
(***************************************************************************)
StatusBits == 5

messages ==
    <<"Algorithm terminated normally, desired tolerances assumed reached",
      "Maximum number of subdivisions allowed has been achieved.",
      "The occurrence of roundoff error is detected.",
      "Extremely bad integrand behavior occurs at some points.",
      "The algorithm does not converge.",
      "The integral is probably divergent, or slowly convergent.">>

\* binary digits of v, most significant first
RECURSIVE BinDigits(_)
BinDigits(v) == IF v < 2 THEN <<v>> ELSE BinDigits(v \div 2) \o <<v % 2>>

\* "{:05b}".format(status): zero padded to at least five digits
Format05b(v) ==
    LET ds == BinDigits(v)
        pad == IF Len(ds) >= StatusBits THEN 0 ELSE StatusBits - Len(ds)
    IN  [i \in 1..(pad + Len(ds)) |-> IF i <= pad THEN 0 ELSE ds[i - pad]]

\* s[::-1]
Reversed(s) == [i \in 1..Len(s) |-> s[Len(s) + 1 - i]]

\* for s, m in zip(status, messages.values()): if int(s): msg += m + "\n\n"
RECURSIVE DecodeLoop(_, _, _)
DecodeLoop(bits, i, msg) ==
    IF i > Len(bits) \/ i > Len(messages) THEN msg
    ELSE DecodeLoop(bits, i + 1,
                    IF bits[i] = 1 THEN msg \o <<messages[i], "\n\n">> ELSE msg)

_decode_status(status) ==
    IF status = 0 THEN <<messages[1]>>
    ELSE DecodeLoop(Reversed(Format05b(status)), 1, <<>>)

STATUS == [i \in 0..(Pow(2, StatusBits) - 1) |-> _decode_status(i)]

(***************************************************************************)
(* Inputs a caller draws from.                                             *)
(***************************************************************************)
Bounds == {NegInf, Zero, One, PosInf}
Params == {Int2Num(2)}
EpsAbs == {Zero, <<1, 4>>}
EpsRel == {Zero, One}
Divmaxes == (-2)..MaxDivmax
Tangents == {<<One, Zero, Zero>>, <<Zero, One, Zero>>, <<Zero, Zero, One>>}

(***************************************************************************)
(* State.                                                                  *)
(*   pc      "idle" | "loop" | "returned" | "raised" | "done" | "decoded"  *)
(*   entry   the public operation entered: "romberg" | "jvp" | "none"      *)
(*   cur     arguments of the running romberg invocation, with the closure *)
(*           m built by map_interval                                       *)
(*   result, n, neval, err   the state tuple of the while loop             *)
(*   nfev    integrand evaluations performed so far by the entry           *)
(*   calls   arguments of the romberg invocations entered, oldest first    *)
(*   rets    (y, QuadratureInfo) of the romberg invocations that returned  *)
(*   out     what _romberg_jvp returned                                    *)
(*   code, msg   a status a caller looked up in STATUS, and the text read  *)
(***************************************************************************)
VARIABLES pc, entry, cur, result, n, neval, err, nfev, calls, rets, out,
          code, msg

vars == <<pc, entry, cur, result, n, neval, err, nfev, calls, rets, out,
          code, msg>>

NoCall == [g |-> [f |-> "one", deriv |-> FALSE, p |-> Zero, pdot |-> Zero],
           a |-> Zero, b |-> Zero, adot |-> Zero, bdot |-> Zero,
           epsabs |-> Zero, epsrel |-> Zero, divmax |-> 0, extrap |-> FALSE,
           m |-> map_interval(Zero, Zero)]

NoOut == [y |-> Zero, tangent |-> Zero, info1 |-> <<>>, info2 |-> <<>>]

Init ==
    /\ pc = "idle"
    /\ entry = "none"
    /\ cur = NoCall
    /\ result = <<>>
    /\ n = 0
    /\ neval = 0
    /\ err = Zero
    /\ nfev = 0
    /\ calls = <<>>
    /\ rets = <<>>
    /\ out = NoOut
    /\ code = 0
    /\ msg = <<>>

(***************************************************************************)
(* romberg.py: romberg.                                                    *)
(***************************************************************************)
\* jnp.zeros((divmax + 1, divmax + 1))
zeros(size) == [ij \in (0..(size - 1)) \X (0..(size - 1)) |-> Zero]

\* an index read: a traced index out of range is clamped into the array
Clamp(i, size) == IF i < 0 THEN 0 ELSE IF i > size - 1 THEN size - 1 ELSE i

Get(t, i, j, size) == t[<<Clamp(i, size), Clamp(j, size)>>]

\* result.at[i, j].set(v)
AtSet(t, i, j, v) == [t EXCEPT ![<<i, j>>] = v]

\* canonical abscissa a + h * (2 * i - 1) with a = -1, h = 2 / 2**n
Node(lvl, i) == Add(Int2Num(-1), Mul(Norm(2, Pow(2, lvl)), Int2Num(2 * i - 1)))

\* jax.lax.fori_loop(1, (2**n) // 2 + 1, sloop, s)
RECURSIVE sloop(_, _, _, _)
sloop(c, lvl, i, s) ==
    IF i >= (Pow(2, lvl) \div 2) + 1 THEN s
    ELSE sloop(c, lvl, i + 1, Add(s, wrapped(c.m, c.g, Node(lvl, i))))

\* jax.lax.fori_loop(1, n + 1, mloop, result)
\* mutant: the extrapolated value overwrites the previous row
mloop_body_prev_row(t, lvl, mm, size) ==
    LET temp == Mul(Recip(Int2Num(Pow(4, mm) - 1)),
                    Sub(Get(t, lvl, mm - 1, size),
                        Get(t, lvl - 1, mm - 1, size)))
    IN  AtSet(t, lvl - 1, mm, Add(Get(t, lvl, mm - 1, size), temp))

\* the body of mloop: one Richardson extrapolation step
mloop_body(t, lvl, mm, size) ==
    LET temp == Mul(Recip(Int2Num(Pow(4, mm) - 1)),
                    Sub(Get(t, lvl, mm - 1, size),
                        Get(t, lvl - 1, mm - 1, size)))
    IN  AtSet(t, lvl, mm, Add(Get(t, lvl, mm - 1, size), temp))

RECURSIVE mloop(_, _, _, _)
mloop(t, lvl, mm, size) ==
    IF mm >= lvl + 1 THEN t
    ELSE mloop(ByValue1(LAMBDA v : mloop_body(v, lvl, mm, size), t),
               lvl, mm + 1, size)

\* the value the stopping test of the loop compares err against
ncond_tol(c, t, lvl) ==
    Maximum(c.epsabs, Mul(c.epsrel, Get(t, lvl, lvl, c.divmax + 1)))

\* mutant: the level bound is dropped from the loop test
ncond_unbounded(c, t, lvl, e) == Gt(e, ncond_tol(c, t, lvl))

ncond(c, t, lvl, e) ==
    (lvl < c.divmax + 1) /\ Gt(e, ncond_tol(c, t, lvl))

\* row n, column 0: the trapezoid estimate with 2**n panels
nloop_row(c, t, lvl) ==
    AtSet(t, lvl, 0,
          Add(Mul(<<1, 2>>, Get(t, lvl - 1, 0, c.divmax + 1)),
              Mul(Norm(2, Pow(2, lvl)), sloop(c, lvl, 1, Zero))))

nloop_result(c, t, lvl) ==
    IF c.extrap THEN mloop(nloop_row(c, t, lvl), lvl, 1, c.divmax + 1)
    ELSE nloop_row(c, t, lvl)

nloop_err(c, t, lvl) ==
    IF c.extrap
    THEN NAbs(Sub(Get(t, lvl, lvl, c.divmax + 1),
                  Get(t, lvl, lvl - 1, c.divmax + 1)))
    ELSE NAbs(Sub(Get(t, lvl, 0, c.divmax + 1),
                  Get(t, lvl - 1, 0, c.divmax + 1)))

\* mutant: counts every node of the level, not only the new mid points
nloop_neval_all(lvl, ne) == ne + Pow(2, lvl)

nloop_neval(lvl, ne) == ne + (Pow(2, lvl) \div 2)

\* y = result[n - 1, n - 1] if extrap else result[n - 1, 0]
final_y(c, t, lvl) ==
    IF c.extrap THEN Get(t, lvl - 1, lvl - 1, c.divmax + 1)
    ELSE Get(t, lvl - 1, 0, c.divmax + 1)

\* status = 2 * (err > jnp.maximum(epsabs, epsrel * y))
final_status(c, y, e) ==
    2 * BoolInt(Gt(e, Maximum(c.epsabs, Mul(c.epsrel, y))))

\* mutant: the error estimate starts at zero
init_err_zero == Zero

\* err = jnp.inf
init_err == PosInf

\* Lines 93-101: build the mapped integrand, allocate the table, evaluate
\* the two end points.  The array library refuses a negative dimension
\* when the table is allocated, and refuses an index into an axis of size
\* 0 when row 0 is written (after both end points were evaluated).
Enter(c) ==
    LET c1 == [c EXCEPT !.m = map_interval(c.a, c.b)]
        size == c.divmax + 1
    IN  /\ cur' = c1
        /\ calls' = Append(calls, c1)
        /\ IF size < 0
           THEN /\ pc' = "raised"
                /\ UNCHANGED <<result, n, neval, err, nfev>>
           ELSE IF size = 0
           THEN /\ pc' = "raised"
                /\ nfev' = nfev + 2
                /\ result' = zeros(size)
                /\ UNCHANGED <<n, neval, err>>
           ELSE /\ pc' = "loop"
                /\ nfev' = nfev + 2
                /\ result' = AtSet(zeros(size), 0, 0,
                                   Add(wrapped(c1.m, c1.g, Int2Num(-1)),
                                       wrapped(c1.m, c1.g, Int2Num(1))))
                /\ n' = 1
                /\ neval' = 2
                /\ err' = init_err

\* a caller invokes romberg(fun, a, b, args, epsabs, epsrel, divmax, extrap)
CallRomberg ==
    /\ pc = "idle"
    /\ \E f \in Funs, a \in Bounds, b \in Bounds, p \in Params,
          ea \in EpsAbs, er \in EpsRel, dm \in Divmaxes, ex \in BOOLEAN :
          Enter([NoCall EXCEPT !.g = [f |-> f, deriv |-> FALSE, p |-> p,
                                      pdot |-> Zero],
                               !.a = a, !.b = b, !.epsabs = ea,
                               !.epsrel = er, !.divmax = dm, !.extrap = ex])
    /\ entry' = "romberg"
    /\ UNCHANGED <<rets, out, code, msg>>

\* one iteration of jax.lax.while_loop(ncond, nloop, state)
NLoop ==
    /\ pc = "loop"
    /\ ncond(cur, result, n, err)
    /\ result' = nloop_result(cur, result, n)
    /\ n' = n + 1
    /\ neval' = nloop_neval(n, neval)
    /\ err' = nloop_err(cur, result', n)
    /\ nfev' = nfev + (Pow(2, n) \div 2)
    /\ UNCHANGED <<pc, entry, cur, calls, rets, out, code, msg>>

\* the loop exits; lines 136-140
Return ==
    /\ pc = "loop"
    /\ ~ncond(cur, result, n, err)
    /\ LET y == final_y(cur, result, n)
       IN  rets' = Append(rets, [y |-> y, err |-> err, neval |-> neval,
                                 status |-> final_status(cur, y, err)])
    /\ pc' = "returned"
    /\ UNCHANGED <<entry, cur, result, n, neval, err, nfev, calls, out,
                   code, msg>>

\* the caller integrates again with the bounds exchanged
Reverse ==
    /\ pc = "returned"
    /\ entry = "romberg"
    /\ Len(rets) = 1
    /\ Enter([cur EXCEPT !.a = cur.b, !.b = cur.a])
    /\ UNCHANGED <<entry, rets, out, code, msg>>

(***************************************************************************)
(* romberg.py: _romberg_jvp.                                               *)
(***************************************************************************)
\* jax.jvp(romberg, ...) enters the rule: f1, info1 = romberg(fun, *primals)
CallJvp ==
    /\ pc = "idle"
    /\ \E f \in Funs, a \in Bounds, b \in Bounds, p \in Params,
          ea \in EpsAbs, er \in EpsRel, dm \in Divmaxes, ex \in BOOLEAN,
          t \in Tangents :
          Enter([NoCall EXCEPT !.g = [f |-> f, deriv |-> FALSE, p |-> p,
                                      pdot |-> t[3]],
                               !.a = a, !.b = b, !.adot = t[1], !.bdot = t[2],
                               !.epsabs = ea, !.epsrel = er, !.divmax = dm,
                               !.extrap = ex])
    /\ entry' = "jvp"
    /\ UNCHANGED <<rets, out, code, msg>>

\* f2, info2 = romberg(df, *primals)
JvpSecond ==
    /\ pc = "returned"
    /\ entry = "jvp"
    /\ Len(rets) = 1
    /\ Enter([cur EXCEPT !.g.deriv = TRUE])
    /\ UNCHANGED <<entry, rets, out, code, msg>>

\* mutant: the lower bound's term enters with the wrong sign
jvp_tangent_plus(c, f2) ==
    Add(Add(Mul(fun(c.g.f, c.b, c.g.p), c.bdot),
            Mul(fun(c.g.f, c.a, c.g.p), c.adot)),
        f2)

\* fun(b, *args) * bdot - fun(a, *args) * adot + f2
jvp_tangent(c, f2) ==
    Add(Sub(Mul(fun(c.g.f, c.b, c.g.p), c.bdot),
            Mul(fun(c.g.f, c.a, c.g.p), c.adot)),
        f2)

\* which of the two invocations supplies the tangent of the diagnostics
jvp_info(r) == r[2]

\* return (f1, info1), (... + f2, info2)
JvpReturn ==
    /\ pc = "returned"
    /\ entry = "jvp"
    /\ Len(rets) = 2
    /\ out' = [y |-> rets[1].y,
               info1 |-> rets[1],
               tangent |-> jvp_tangent(cur, rets[2].y),
               info2 |-> jvp_info(rets)]
    /\ pc' = "done"
    /\ UNCHANGED <<entry, cur, result, n, neval, err, nfev, calls, rets,
                   code, msg>>

(***************************************************************************)
(* A caller reads quadax.STATUS[status].                                   *)
(***************************************************************************)
Decode ==
    /\ pc = "idle"
    /\ \E s \in DOMAIN STATUS :
          /\ msg' = STATUS[s]
          /\ code' = s
    /\ pc' = "decoded"
    /\ UNCHANGED <<entry, cur, result, n, neval, err, nfev, calls, rets, out>>

Next ==
    \/ CallRomberg
    \/ NLoop
    \/ Return
    \/ Reverse
    \/ CallJvp
    \/ JvpSecond
    \/ JvpReturn
    \/ Decode

Spec == Init /\ [][Next]_vars

\* jax.lax.while_loop keeps evaluating ncond and nloop until ncond is false,
\* and romberg then runs on to its return statement
FairSpec == Spec /\ WF_vars(NLoop) /\ WF_vars(Return)

(***************************************************************************)
(* Properties.                                                             *)
(***************************************************************************)
InCall == pc \in {"loop", "returned", "done"}

LastRet == rets[Len(rets)]

\* sum_{i=1..k} 2^(i-1)
RECURSIVE SumNewNodes(_)
SumNewNodes(k) == IF k <= 0 THEN 0 ELSE Pow(2, k - 1) + SumNewNodes(k - 1)

\* C1: while romberg's loop runs and when it has returned, with k = n - 1
\* completed levels, neval = 2 + sum_{i=1..k} 2^(i-1) = 2^k + 1 and
\* 0 <= k <= divmax, so neval <= 2^divmax + 1; the returned QuadratureInfo
\* carries that count.
C1_NevalExact ==
    InCall =>
        /\ 0 <= n - 1 /\ n - 1 <= cur.divmax
        /\ neval = 2 + SumNewNodes(n - 1)
        /\ neval = Pow(2, n - 1) + 1
        /\ neval <= Pow(2, cur.divmax) + 1
        /\ (pc = "returned" => LastRet.neval = neval)

C1_Witness ==
    /\ pc = "returned"
    /\ cur.divmax >= 2
    /\ n - 1 = cur.divmax
    /\ LastRet.neval = Pow(2, cur.divmax) + 1

\* C2: every execution of the loop ends (under fair scheduling of the
\* program's steps); each iteration raises the level counter by exactly one
\* and is taken only when fewer than divmax levels are complete, so there
\* are at most divmax iterations whatever the error estimates are.
C2_LoopTerminates ==
    /\ [](pc = "loop" => <>(pc # "loop"))
    /\ [][(pc = "loop" /\ pc' = "loop") =>
              (n' = n + 1 /\ n - 1 < cur.divmax /\ n' - 1 <= cur.divmax)]_vars

\* the level budget ran out with the tolerance still unmet
C2_Witness ==
    /\ pc = "returned"
    /\ cur.divmax >= 2
    /\ n - 1 = cur.divmax
    /\ Gt(err, cur.epsabs)
\* the tolerance of the specification: max(abs_tol, rel_tol * |estimate|)
SpecTol(c, est) == Maximum(c.epsabs, Mul(c.epsrel, NAbs(est)))

\* C3: on return the status is 1 (bit 0 and no other bit) exactly when the
\* final error estimate exceeds max(epsabs, epsrel * |y|), and 0 otherwise.
C3_StatusBitZero ==
    pc = "returned" =>
        LastRet.status =
            BoolInt(Gt(LastRet.err, SpecTol(cur, LastRet.y)))

\* the messages the specification registers for bits 0..4 of a status
ClaimedBitMessage(bit) == messages[bit + 2]

RECURSIVE ClaimedText(_, _)
ClaimedText(s, bit) ==
    IF bit >= StatusBits THEN <<>>
    ELSE (IF (s \div Pow(2, bit)) % 2 = 1
          THEN <<ClaimedBitMessage(bit), "\n\n">> ELSE <<>>)
         \o ClaimedText(s, bit + 1)

\* C4: every STATUS[s], s in 0..31, is non-empty; STATUS[0] is the single
\* 'terminated normally' message; for s # 0 STATUS[s] concatenates exactly
\* the messages of the set bits of s, bit 0 being the tolerance message and
\* bits 1..4 the four diagnostics, so the 'terminated normally' text occurs
\* in no STATUS[s] with s # 0.
C4_StatusTable ==
    pc = "decoded" =>
        /\ msg # <<>>
        /\ (code = 0 => msg = <<messages[1]>>)
        /\ (code # 0 => msg = ClaimedText(code, 0))
        /\ (code # 0 => \A i \in 1..Len(msg) : msg[i] # messages[1])

\* C5: romberg(f, a, b) and romberg(f, b, a) with a # b return opposite
\* values: both invocations integrate over the same normalized interval
\* (lower bound <= upper bound, same mapping case), and the sign is -1
\* exactly for the invocation whose bounds were given in reversed order.
C5_ReversalNegates ==
    (entry = "romberg" /\ Len(calls) = 2 /\ calls[1].a # calls[1].b) =>
        /\ calls[2].a = calls[1].b /\ calls[2].b = calls[1].a
        /\ calls[2].m.a = calls[1].m.a
        /\ calls[2].m.b = calls[1].m.b
        /\ calls[2].m.bitmask = calls[1].m.bitmask
        /\ ~Gt(calls[1].m.a, calls[1].m.b)
        /\ \A i \in 1..2 :
              calls[i].m.sgn = (IF Gt(calls[i].a, calls[i].b) THEN -1 ELSE 1)
        /\ (Len(rets) = 2 => rets[2].y = Neg(rets[1].y))

C5_Witness ==
    /\ entry = "romberg"
    /\ Len(rets) = 2
    /\ IsInf(calls[1].a)
    /\ IsFinite(calls[1].b)
    /\ n >= 3
    /\ rets[1].y # Zero
    /\ rets[2].y = Neg(rets[1].y)

\* C6: a call with a negative divmax ends in an error, and the integrand
\* has not been evaluated at any point when it does.
C6_NegativeRejectedFirst ==
    (pc # "idle" /\ pc # "decoded" /\ cur.divmax < 0) =>
        (pc = "raised" /\ nfev = 0)

\* C7: _romberg_jvp returns as primal output the result of romberg on fun,
\* as tangent of the value fun(b) * bdot - fun(a) * adot + f2 and as tangent
\* of the diagnostics info2, where (f2, info2) is what a second invocation
\* of romberg returned for the integrand df with the bounds, tolerances,
\* divmax and extrap of the first.
C7_JvpRule ==
    pc = "done" =>
        /\ Len(calls) = 2 /\ Len(rets) = 2
        /\ ~calls[1].g.deriv
        /\ calls[2] = [calls[1] EXCEPT !.g.deriv = TRUE]
        /\ out.y = rets[1].y
        /\ out.info1 = rets[1]
        /\ out.tangent =
               Add(Sub(Mul(fun(calls[1].g.f, calls[1].b, calls[1].g.p),
                           calls[1].bdot),
                       Mul(fun(calls[1].g.f, calls[1].a, calls[1].g.p),
                           calls[1].adot)),
                   rets[2].y)
        /\ out.info2 = rets[2]

C7_Witness ==
    /\ pc = "done"
    /\ calls[1].g.f = "lin"
    /\ calls[1].a = One /\ calls[1].b = Zero
    /\ calls[1].adot = One
    /\ IsFinite(out.tangent)
    /\ out.tangent # Zero
    /\ rets[2] # rets[1]

OneOnUnit(c) ==
    c.g.f = "one" /\ ~c.g.deriv /\ c.a = Zero /\ c.b = One

\* C8 as stated: with divmax = 0 the two-point estimate is returned without
\* refinement, and for f(x) = 1 on [0, 1] romberg returns 1 with error 0
\* and status 0 at level 0 already (no refinement level, neval = 2).
C8_AcceptedAtLevelZero ==
    pc = "returned" =>
        /\ (cur.divmax = 0 => (n = 1 /\ LastRet.neval = 2))
        /\ (OneOnUnit(cur) =>
               /\ LastRet.y = One
               /\ LastRet.err = Zero
               /\ LastRet.status = 0
               /\ n = 1
               /\ LastRet.neval = 2)

\* C8 amended: with divmax = 0 the two-point estimate row[0][0] is returned
\* without refinement (neval = 2), its error estimate is still +inf and the
\* status is never 0; a return without refinement happens only for
\* divmax = 0.  For f(x) = 1 on [0, 1] every return has value 1; with
\* divmax >= 1 it comes after exactly one refinement level (neval = 3) with
\* error 0 and status 0.
C8_LevelZeroNeverAccepted ==
    pc = "returned" =>
        /\ (cur.divmax = 0 =>
               /\ n = 1
               /\ LastRet.neval = 2
               /\ LastRet.y = result[<<0, 0>>]
               /\ LastRet.err = PosInf
               /\ LastRet.status # 0)
        /\ (n = 1 => cur.divmax = 0)
        /\ (OneOnUnit(cur) =>
               /\ LastRet.y = One
               /\ (cur.divmax >= 1 =>
                      /\ n = 2
                      /\ LastRet.neval = 3
                      /\ LastRet.err = Zero
                      /\ LastRet.status = 0))

C8_Witness ==
    /\ pc = "returned"
    /\ OneOnUnit(cur)
    /\ cur.divmax = 0
    /\ LastRet.y = One
    /\ LastRet.err = PosInf
    /\ LastRet.status # 0

\* the most recently computed entry of the table
BestEstimate(c, t, lvl) ==
    IF c.extrap THEN t[<<lvl - 1, lvl - 1>>] ELSE t[<<lvl - 1, 0>>]

\* C9: in a state of the loop the next step is a further refinement level
\* if and only if fewer than divmax levels are complete and the error
\* estimate exceeds max(epsabs, epsrel * |current best estimate|).
C9_LoopTest ==
    [][pc = "loop" =>
          ((pc' = "loop" /\ n' = n + 1) <=>
               (n - 1 < cur.divmax
                /\ Gt(err, SpecTol(cur, BestEstimate(cur, result, n)))))]_vars

TableIndex == 0..cur.divmax

\* C10: the table stays lower triangular and grows by one row per level.
\* Entries right of the diagonal and entries of rows not yet computed are
\* zero (without extrapolation every column but the first is zero); an
\* iteration writes only row n, columns 0..n, or column 0 alone without
\* extrapolation; the returned value is row[k][k], or row[k][0] without
\* extrapolation, for the last completed level k = n - 1.
C10_TableShape ==
    InCall =>
        /\ DOMAIN result = TableIndex \X TableIndex
        /\ \A r \in TableIndex, m \in TableIndex :
              (m > r \/ r > n - 1 \/ (~cur.extrap /\ m > 0)) =>
                  result[<<r, m>>] = Zero
        /\ (pc = "returned" =>
               LastRet.y = (IF cur.extrap THEN result[<<n - 1, n - 1>>]
                            ELSE result[<<n - 1, 0>>]))

C10_RowFrame ==
    (pc = "loop" /\ pc' = "loop") =>
        /\ n' = n + 1
        /\ \A r \in TableIndex, m \in TableIndex :
              (r # n \/ m > n \/ (~cur.extrap /\ m > 0)) =>
                  result'[<<r, m>>] = result[<<r, m>>]

\* C10: the table is lower triangular in every reachable state
\* (C10_TableShape) and every iteration of the loop writes only the row of
\* its level and leaves the rows written before unchanged (C10_RowFrame).
C10_TableGrowsByRows == []C10_TableShape /\ [][C10_RowFrame]_vars

C10_Witness ==
    /\ pc = "returned"
    /\ cur.extrap
    /\ n = 3
    /\ result[<<1, 0>>] # Zero
    /\ result[<<1, 1>>] # result[<<1, 0>>]
    /\ result[<<2, 2>>] # result[<<2, 1>>]
    /\ LastRet.y = result[<<2, 2>>]

=============================================================================
